---- MODULE Spec2Model ----
(***************************************************************************)
(* A model of the infrared reverse proxy's connection layer                *)
(* (connection/connection.go) together with the gateway, server store and  *)
(* backend login/status flow that the gateway tests exercise.              *)
(*                                                                         *)
(* A byte is a natural number, a byte string a sequence of them.  A Go     *)
(* method that can return several results (a socket read may return any    *)
(* number of the bytes in flight) is an operator yielding the SET of its   *)
(* outcomes, each outcome carrying the receiver's new value and the        *)
(* returned values; a method that would block yields the empty set.        *)
(***************************************************************************)
EXTENDS Integers, Sequences, FiniteSets, TLC

\* ------------------------------------------------------------------ bounds

\* Largest number of frames the client sends after the login-start frame.
MaxExtra == 1
\* Largest nextState value a client puts in its handshake.
MaxNextState == 3
\* Largest number of AddServer calls made during setup.
MaxAdds == 2
\* Largest number of method calls made by the API harness (SpecConn).
MaxCalls == 4

\* ------------------------------------------------------------ basic values

Min(a, b) == IF a < b THEN a ELSE b

RECURSIVE Flatten(_)
Flatten(ss) == IF ss = <<>> THEN <<>> ELSE Head(ss) \o Flatten(Tail(ss))

\* protocol.Packet{}: the zero packet.
ZeroPacket == [ID |-> 0, Data |-> <<>>]

\* handshaking.ServerBoundHandshake{}: the zero handshake.
ZeroHandshake ==
    [ProtocolVersion |-> 0, ServerAddress |-> <<>>, ServerPort |-> 0, NextState |-> 0]

\* connection.go:13-16
ErrCantGetHSPacket == "ErrCantGetHSPacket"
ErrNoNameYet == "ErrNoNameYet"
\* The nil error, and the errors of the transport and of the codecs.
NoErr == "nil"
ErrEOF == "EOF"
ErrClosedPipe == "ErrClosedPipe"
ErrMalformedHandshake == "MalformedHandshake"

\* connection.go:18-24
UnknownRequest == 0
StatusRequest == 1
LoginRequest == 2

\* connection.go:221, the pipe's buffer size (0xffff)
PipeBufferSize == 65535

\* Go's conversion of an integer to int8 (RequestType's underlying type).
ToInt8(n) == ((n + 128) % 256) - 128

\* ------------------------------------------------------------ packet codec

\* The variable-length integer: 7 bits per byte, least significant group
\* first, the top bit set on every byte but the last.
RECURSIVE EncodeVarInt(_)
EncodeVarInt(n) ==
    IF n < 128 THEN <<n>> ELSE <<128 + (n % 128)>> \o EncodeVarInt(n \div 128)

\* Decoding a varint at the head of bs: [ok, val, n] with n the bytes used;
\* ok is FALSE when bs ends before the varint does.
RECURSIVE DecodeVarInt(_)
DecodeVarInt(bs) ==
    IF bs = <<>> THEN [ok |-> FALSE, val |-> 0, n |-> 0]
    ELSE IF Head(bs) < 128 THEN [ok |-> TRUE, val |-> Head(bs), n |-> 1]
    ELSE LET r == DecodeVarInt(Tail(bs))
         IN [ok |-> r.ok, val |-> (Head(bs) % 128) + 128 * r.val, n |-> r.n + 1]

\* Packet.Marshal: length prefix, packet id, payload.
Marshal(pk) ==
    LET id == EncodeVarInt(pk.ID)
    IN EncodeVarInt(Len(id) + Len(pk.Data)) \o id \o pk.Data

\* One frame at the head of bs: [ok, pk, n] with n the bytes of the frame;
\* ok is FALSE when bs does not hold a whole frame yet.
DecodeFrame(bs) ==
    LET l == DecodeVarInt(bs)
    IN IF ~l.ok \/ l.val = 0 \/ Len(bs) < l.n + l.val
       THEN [ok |-> FALSE, pk |-> ZeroPacket, n |-> 0]
       ELSE LET body == SubSeq(bs, l.n + 1, l.n + l.val)
                id == DecodeVarInt(body)
            IN [ok |-> TRUE,
                pk |-> [ID |-> id.val, Data |-> SubSeq(body, id.n + 1, Len(body))],
                n |-> l.n + l.val]

\* --------------------------------------------------------- handshake codec

\* ServerBoundHandshake.Marshal
MarshalHandshake(h) ==
    [ID |-> 0,
     Data |-> EncodeVarInt(h.ProtocolVersion)
              \o EncodeVarInt(Len(h.ServerAddress)) \o h.ServerAddress
              \o <<h.ServerPort \div 256, h.ServerPort % 256>>
              \o <<h.NextState>>]

\* handshaking.UnmarshalServerBoundHandshake: [hs, err]; fails when a field
\* cannot be read from the payload.
UnmarshalServerBoundHandshake(pk) ==
    LET d == pk.Data
        bad == [hs |-> ZeroHandshake, err |-> ErrMalformedHandshake]
        v == DecodeVarInt(d)
    IN IF ~v.ok THEN bad
       ELSE LET d1 == SubSeq(d, v.n + 1, Len(d))
                a == DecodeVarInt(d1)
            IN IF ~a.ok \/ Len(d1) < a.n + a.val + 3 THEN bad
               ELSE LET addr == SubSeq(d1, a.n + 1, a.n + a.val)
                        d2 == SubSeq(d1, a.n + a.val + 1, Len(d1))
                    IN [hs |-> [ProtocolVersion |-> v.val,
                                ServerAddress |-> addr,
                                ServerPort |-> 256 * d2[1] + d2[2],
                                NextState |-> d2[3]],
                        err |-> NoErr]

\* --------------------------------------------------------------- transport

\* A net.Conn as this side sees it: rx, the bytes the peer has sent that have
\* not been read yet; closed, whether the peer has closed the connection; tx,
\* the byte strings written to the peer, one per Write.
NewNetConn(bytes) == [rx |-> bytes, closed |-> FALSE, tx |-> <<>>]

\* net.Conn.Read into a buffer of size cap: any non-empty prefix of the bytes
\* in flight that fits; end-of-stream once the peer has closed and nothing is
\* left; otherwise the call blocks.
NetRead(nc, cap) ==
    IF nc.rx # <<>>
    THEN {[c |-> [nc EXCEPT !.rx = SubSeq(nc.rx, n + 1, Len(nc.rx))],
           data |-> SubSeq(nc.rx, 1, n), err |-> NoErr]
          : n \in 1..Min(Len(nc.rx), cap)}
    ELSE IF nc.closed THEN {[c |-> nc, data |-> <<>>, err |-> ErrEOF]}
    ELSE {}

\* net.Conn.Write: fails once the peer has closed.
NetWrite(nc, b) ==
    IF nc.closed THEN {[c |-> nc, n |-> 0, err |-> ErrClosedPipe]}
    ELSE {[c |-> [nc EXCEPT !.tx = Append(nc.tx, b)], n |-> Len(b), err |-> NoErr]}

\* --------------------------------------------------------- BasicConnection

\* CreateBasicConnection: the socket and a bufio.Reader over it, its buffer
\* empty.  readPackets counts the ReadPacket calls that returned, as the test
\* doubles' readCount does.
CreateBasicConnection(nc) == [connection |-> nc, reader |-> <<>>, readPackets |-> 0]

\* BasicConnection.ReadPacket: protocol.ReadPacket on the buffered reader.
\* The reader fills its buffer from the socket whenever it runs empty, and a
\* fill takes whatever the socket read returns: m is the number of bytes the
\* fills of this call moved from the socket into the buffer, at least the
\* bytes the frame still lacked, at most all the bytes in flight.
BasicConnection_ReadPacket(bc) ==
    LET rx == bc.connection.rx
        avail == bc.reader \o rx
        d == DecodeFrame(avail)
        need == IF d.n > Len(bc.reader) THEN d.n - Len(bc.reader) ELSE 0
    IN IF d.ok
       THEN {[c |-> [bc EXCEPT !.reader = SubSeq(avail, d.n + 1, Len(bc.reader) + m),
                               !.connection.rx = SubSeq(rx, m + 1, Len(rx)),
                               !.readPackets = @ + 1],
              pk |-> d.pk, err |-> NoErr]
             : m \in IF need = 0 THEN {0} ELSE need..Len(rx)}
       ELSE IF bc.connection.closed
       THEN {[c |-> [bc EXCEPT !.reader = <<>>, !.connection.rx = <<>>,
                               !.readPackets = @ + 1],
              pk |-> ZeroPacket, err |-> ErrEOF]}
       ELSE {}

\* BasicConnection.WritePacket: the marshalled frame in one socket write.
BasicConnection_WritePacket(bc, p) ==
    {[c |-> [bc EXCEPT !.connection = o.c], err |-> o.err]
     : o \in NetWrite(bc.connection, Marshal(p))}

\* BasicConnection.Read: straight from the socket, not from the reader.
BasicConnection_Read(bc, cap) ==
    {[c |-> [bc EXCEPT !.connection = o.c], data |-> o.data, err |-> o.err]
     : o \in NetRead(bc.connection, cap)}

\* BasicConnection.Write
BasicConnection_Write(bc, b) ==
    {[c |-> [bc EXCEPT !.connection = o.c], n |-> o.n, err |-> o.err]
     : o \in NetWrite(bc.connection, b)}

\* --------------------------------------------------- BasicPlayerConnection

\* CreateBasicPlayerConnection (the remote address plays no part here).
CreateBasicPlayerConnection(conn) ==
    [conn |-> conn, hsPk |-> ZeroPacket, loginPk |-> ZeroPacket,
     hs |-> ZeroHandshake, hasHS |-> FALSE, hasHSPk |-> FALSE]

\* BasicPlayerConnection.ReadPacket
ReadPacket(c) ==
    {[c |-> [c EXCEPT !.conn = o.c],
      pk |-> IF o.err # NoErr THEN ZeroPacket ELSE o.pk, err |-> o.err]
     : o \in BasicConnection_ReadPacket(c.conn)}

\* BasicPlayerConnection.WritePacket
WritePacket(c, p) == {[c |-> c, err |-> NoErr]}

\* HsPk without its check of hasHSPk: every call reads the stream.
HsPk_NoCacheCheck(c) ==
    {IF o.err # NoErr
     THEN [c |-> o.c, pk |-> o.pk, err |-> ErrCantGetHSPacket]
     ELSE [c |-> [o.c EXCEPT !.hsPk = o.pk, !.hasHSPk = TRUE], pk |-> o.pk, err |-> NoErr]
     : o \in ReadPacket(c)}

\* HsPk remembering a failed read as if it were the handshake packet.
HsPk_CachesFailure(c) ==
    IF c.hasHSPk THEN {[c |-> c, pk |-> c.hsPk, err |-> NoErr]}
    ELSE {IF o.err # NoErr
          THEN [c |-> [o.c EXCEPT !.hsPk = o.pk, !.hasHSPk = TRUE],
                pk |-> o.pk, err |-> ErrCantGetHSPacket]
          ELSE [c |-> [o.c EXCEPT !.hsPk = o.pk, !.hasHSPk = TRUE],
                pk |-> o.pk, err |-> NoErr]
          : o \in ReadPacket(c)}

\* BasicPlayerConnection.HsPk
HsPk(c) ==
    IF c.hasHSPk THEN {[c |-> c, pk |-> c.hsPk, err |-> NoErr]}
    ELSE {IF o.err # NoErr
          THEN [c |-> o.c, pk |-> o.pk, err |-> ErrCantGetHSPacket]
          ELSE [c |-> [o.c EXCEPT !.hsPk = o.pk, !.hasHSPk = TRUE],
                pk |-> o.pk, err |-> NoErr]
          : o \in ReadPacket(c)}

\* Hs reading its packet from the stream itself instead of through HsPk.
Hs_ReadsDirectly(c) ==
    IF c.hasHS THEN {[c |-> c, hs |-> c.hs, err |-> NoErr]}
    ELSE {IF o.err # NoErr
          THEN [c |-> o.c, hs |-> o.c.hs, err |-> ErrCantGetHSPacket]
          ELSE LET u == UnmarshalServerBoundHandshake(o.pk)
               IN IF u.err # NoErr
                  THEN [c |-> [o.c EXCEPT !.hs = u.hs], hs |-> u.hs, err |-> u.err]
                  ELSE [c |-> [o.c EXCEPT !.hs = u.hs, !.hasHS = TRUE],
                        hs |-> u.hs, err |-> NoErr]
          : o \in ReadPacket(c)}

\* BasicPlayerConnection.Hs
Hs(c) ==
    IF c.hasHS THEN {[c |-> c, hs |-> c.hs, err |-> NoErr]}
    ELSE {IF o.err # NoErr
          THEN [c |-> o.c, hs |-> o.c.hs, err |-> o.err]
          ELSE LET u == UnmarshalServerBoundHandshake(o.pk)
               IN IF u.err # NoErr
                  THEN [c |-> [o.c EXCEPT !.hs = u.hs], hs |-> u.hs, err |-> u.err]
                  ELSE [c |-> [o.c EXCEPT !.hs = u.hs, !.hasHS = TRUE],
                        hs |-> u.hs, err |-> NoErr]
          : o \in HsPk(c)}

\* BasicPlayerConnection.Name
Name(c) == {[c |-> c, name |-> <<>>, err |-> ErrNoNameYet]}

\* BasicPlayerConnection.LoginStart
LoginStart(c) ==
    {[c |-> [o.c EXCEPT !.loginPk = o.pk], pk |-> o.pk, err |-> NoErr]
     : o \in ReadPacket(c)}

\* BasicPlayerConnection.Read
Read(c, cap) ==
    {[c |-> [c EXCEPT !.conn = o.c], data |-> o.data, err |-> o.err]
     : o \in BasicConnection_Read(c.conn, cap)}

\* BasicPlayerConnection.Write
Write(c, b) ==
    {[c |-> [c EXCEPT !.conn = o.c], n |-> o.n, err |-> o.err]
     : o \in BasicConnection_Write(c.conn, b)}

\* --------------------------------------------------------- BasicServerConn

\* CreateBasicServerConn
CreateBasicServerConn(conn, pk) == [conn |-> conn, statusPK |-> pk]

\* BasicServerConn.Status: the write's error is dropped, then one packet is
\* read.
\* A Status that never hands its request packet to the connection.
BasicServerConn_Status_NoWrite(sc) == {[c |-> sc, err |-> NoErr]}

\* First statement of Status: c.conn.WritePacket(c.statusPK).
BasicServerConn_Status_Write(sc) ==
    {[c |-> [sc EXCEPT !.conn = w.c], err |-> w.err]
     : w \in BasicConnection_WritePacket(sc.conn, sc.statusPK)}

\* Second statement of Status: return c.conn.ReadPacket().
BasicServerConn_Status_Read(sc) ==
    {[c |-> [sc EXCEPT !.conn = r.c], pk |-> r.pk, err |-> r.err]
     : r \in BasicConnection_ReadPacket(sc.conn)}

\* The whole call: the error of the write is dropped, the read is returned.
BasicServerConn_Status(sc) ==
    UNION {{[c |-> r.c, pk |-> r.pk, err |-> r.err, werr |-> w.err]
            : r \in BasicServerConn_Status_Read(w.c)}
           : w \in BasicServerConn_Status_Write(sc)}

\* BasicServerConn.SendPK
BasicServerConn_SendPK(sc, pk) ==
    {[c |-> [sc EXCEPT !.conn = o.c], err |-> o.err]
     : o \in BasicConnection_WritePacket(sc.conn, pk)}

\* BasicServerConn.Read
BasicServerConn_Read(sc, cap) ==
    {[c |-> [sc EXCEPT !.conn = o.c], data |-> o.data, err |-> o.err]
     : o \in BasicConnection_Read(sc.conn, cap)}

\* BasicServerConn.Write
BasicServerConn_Write(sc, b) ==
    {[c |-> [sc EXCEPT !.conn = o.c], n |-> o.n, err |-> o.err]
     : o \in BasicConnection_Write(sc.conn, b)}

\* ----------------------------------------------------------------- helpers

\* ServerAddr: the handshake's address, the error of Hs dropped.
ServerAddr(c) == {[c |-> o.c, addr |-> o.hs.ServerAddress] : o \in Hs(c)}

\* ParseRequestType reading the neighbouring field, as ProtocolVersion does.
ParseRequestType_WrongField(c) ==
    {[c |-> o.c, type |-> ToInt8(o.hs.ProtocolVersion)] : o \in Hs(c)}

\* ParseRequestType treating everything that is not a status request as a
\* login.
ParseRequestType_DefaultLogin(c) ==
    {[c |-> o.c,
      type |-> IF ToInt8(o.hs.NextState) = StatusRequest THEN StatusRequest
               ELSE LoginRequest]
     : o \in Hs(c)}

\* ParseRequestType: the handshake's nextState converted to a RequestType,
\* the error of Hs dropped.
ParseRequestType(c) == {[c |-> o.c, type |-> ToInt8(o.hs.NextState)] : o \in Hs(c)}

\* ------------------------------------------------------------ server store

\* The backends that can be registered, and the absent backend (nil).
Backends == {"s1", "s2"}
NoServer == "nil"

\* The addresses a client asks for: the empty one, "a" and "A" as byte strings.
Addrs == {<<>>, <<97>>, <<65>>}
\* The keys AddServer is called with during setup.
Keys == {<<>>, <<97>>}

\* SingleServerStore{Server: b}, DefaultServerStore{}
SingleServerStore(b) == [kind |-> "single", Server |-> b, servers |-> <<>>]
DefaultServerStore == [kind |-> "default", Server |-> NoServer, servers |-> <<>>]

\* DefaultServerStore.AddServer: servers is the list of (addr, server) pairs
\* as a function from the registered keys; a key registered again is
\* overwritten.
AddServer(st, key, b) ==
    [st EXCEPT !.servers = [k \in (DOMAIN st.servers) \cup {key} |->
                               IF k = key THEN b ELSE st.servers[k]]]

\* A single-backend store that looks the address up as the keyed store does.
SingleServerStore_FindServer_ByAddr(st, c) ==
    {[c |-> o.c,
      server |-> IF o.addr = <<97>> THEN st.Server ELSE NoServer,
      ok |-> o.addr = <<97>> /\ st.Server # NoServer]
     : o \in ServerAddr(c)}

\* SingleServerStore.FindServer: the configured backend, whatever is asked.
SingleServerStore_FindServer(st, c) ==
    {[c |-> c, server |-> st.Server, ok |-> st.Server # NoServer]}

\* DefaultServerStore.FindServer: exact lookup of ServerAddr(conn).
DefaultServerStore_FindServer(st, c) ==
    {[c |-> o.c,
      server |-> IF o.addr \in DOMAIN st.servers THEN st.servers[o.addr] ELSE NoServer,
      ok |-> o.addr \in DOMAIN st.servers]
     : o \in ServerAddr(c)}

\* ServerStore.FindServer
FindServer(st, c) ==
    IF st.kind = "single" THEN SingleServerStore_FindServer(st, c)
    ELSE DefaultServerStore_FindServer(st, c)

\* ------------------------------------------------------------------- state

VARIABLES
    playerConn,   \* the BasicPlayerConnection of the session, its socket included
    serverConn,   \* the BasicServerConn the backend's ConnFactory returns
    store,        \* the gateway's ServerStore
    adds,         \* AddServer calls made so far
    gw,           \* HandleConnection: its position and its locals
    loginCalled,  \* calls of the found backend's Login
    statusCalled, \* calls of the found backend's Status
    loops,        \* the two copy loops of Pipe(c1, c2), c1 the player
    clientPks,    \* the packets the client sends, in order (never changes)
    last,         \* the latest method call that returned, and what it returned
    ncalls        \* method calls made by the API harness

vars == <<playerConn, serverConn, store, adds, gw, loginCalled, statusCalled,
          loops, clientPks, last, ncalls>>

\* ------------------------------------------------------------ what is sent

\* The handshakes a client sends (protocol version 47, port 25565).
Handshakes ==
    {[ProtocolVersion |-> 47, ServerAddress |-> a, ServerPort |-> 25565, NextState |-> n]
     : a \in Addrs, n \in 0..MaxNextState}

\* login.ServerLoginStart{Name: "i"}.Marshal()
LoginStartPk == [ID |-> 0, Data |-> <<1, 105>>]

\* The k-th packet sent after login start, as the test's firstPipePk.
PipePk(k) == [ID |-> 25, Data |-> <<k>>]

\* A first packet that is no handshake: its payload is too short.
ShortPk == [ID |-> 0, Data |-> <<47>>]

\* What a client sends, its handshake among hss: nothing; or a first packet
\* (a handshake or a short one), then possibly login start, then possibly up
\* to MaxExtra packets.
ClientStreams(hss) ==
    {<<>>}
    \cup {<<f>> : f \in {MarshalHandshake(h) : h \in hss} \cup {ShortPk}}
    \cup {<<MarshalHandshake(h), LoginStartPk>> \o [k \in 1..n |-> PipePk(k)]
          : h \in hss, n \in 0..MaxExtra}

\* The bytes of a sequence of packets on the wire.
Wire(pks) == Flatten([i \in 1..Len(pks) |-> Marshal(pks[i])])

\* What the backend sends: nothing, or one packet (a status response, or
\* the first bytes of play).
BackendStreams == {<<>>, <<[ID |-> 0, Data |-> <<7>>]>>}

IdleLoop == [pc |-> "idle", data |-> <<>>, end |-> "none"]

InitCommon(hss) ==
    /\ clientPks \in ClientStreams(hss)
    /\ playerConn =
          CreateBasicPlayerConnection(CreateBasicConnection(NewNetConn(Wire(clientPks))))
    /\ \E bs \in BackendStreams :
          serverConn =
             CreateBasicServerConn(CreateBasicConnection(NewNetConn(Wire(bs))), ZeroPacket)
    /\ adds = 0
    /\ loginCalled = 0
    /\ statusCalled = 0
    /\ loops = [d \in {"c1c2", "c2c1"} |-> IdleLoop]
    /\ last = [op |-> "none", err |-> NoErr]
    /\ ncalls = 0

NewGw(pc) == [pc |-> pc, found |-> FALSE, server |-> NoServer, reqType |-> UnknownRequest]

\* The session: a store is built, then the listener hands one accepted
\* connection to the gateway.
Init ==
    /\ InitCommon(Handshakes)
    /\ store \in {DefaultServerStore} \cup {SingleServerStore(b) : b \in Backends \cup {NoServer}}
    /\ gw = NewGw("setup")

\* ------------------------------------------------------------- environment

\* The client closes its side of the connection.
ClientClose ==
    /\ gw.pc # "setup"
    /\ ~playerConn.conn.connection.closed
    /\ playerConn' = [playerConn EXCEPT !.conn.connection.closed = TRUE]
    /\ UNCHANGED <<serverConn, store, adds, gw, loginCalled, statusCalled, loops,
                   clientPks, last, ncalls>>

\* The backend closes its side of the connection, which exists once the
\* backend's ConnFactory has been called.
ServerClose ==
    /\ gw.pc \in {"status", "status_read", "login", "forward", "pipe", "piping",
                 "closed"}
    /\ ~serverConn.conn.connection.closed
    /\ serverConn' = [serverConn EXCEPT !.conn.connection.closed = TRUE]
    /\ UNCHANGED <<playerConn, store, adds, gw, loginCalled, statusCalled, loops,
                   clientPks, last, ncalls>>

\* ------------------------------------------------------------------- setup

\* store.AddServer(key, b), before the listener starts
SetupAddServer ==
    /\ gw.pc = "setup"
    /\ store.kind = "default"
    /\ adds < MaxAdds
    /\ \E key \in Keys, b \in Backends : store' = AddServer(store, key, b)
    /\ adds' = adds + 1
    /\ UNCHANGED <<playerConn, serverConn, gw, loginCalled, statusCalled, loops,
                   clientPks, last, ncalls>>

\* BasicListener.Listen: the accepted connection goes to HandleConnection.
Listen ==
    /\ gw.pc = "setup"
    /\ gw' = [gw EXCEPT !.pc = "find"]
    /\ UNCHANGED <<playerConn, serverConn, store, adds, loginCalled, statusCalled,
                   loops, clientPks, last, ncalls>>

\* ----------------------------------------------------------------- gateway

\* HandleConnection, first step: store.FindServer(conn); not found ends the
\* handling with no backend call.
GwFindServer ==
    /\ gw.pc = "find"
    /\ \E o \in FindServer(store, playerConn) :
          /\ playerConn' = o.c
          /\ gw' = [gw EXCEPT !.found = o.ok, !.server = o.server,
                              !.pc = IF o.ok THEN "dispatch" ELSE "closed"]
    /\ UNCHANGED <<serverConn, store, adds, loginCalled, statusCalled, loops,
                   clientPks, last, ncalls>>

\* HandleConnection, second step: the switch on ParseRequestType(conn) that
\* calls the backend's Login or Status, or neither.
GwDispatch ==
    /\ gw.pc = "dispatch"
    /\ \E o \in ParseRequestType(playerConn) :
          /\ playerConn' = o.c
          /\ gw' = [gw EXCEPT !.reqType = o.type,
                              !.pc = CASE o.type = LoginRequest -> "login"
                                       [] o.type = StatusRequest -> "status"
                                       [] OTHER -> "closed"]
          /\ loginCalled' = loginCalled + (IF o.type = LoginRequest THEN 1 ELSE 0)
          /\ statusCalled' = statusCalled + (IF o.type = StatusRequest THEN 1 ELSE 0)
    /\ UNCHANGED <<serverConn, store, adds, loops, clientPks, last, ncalls>>

\* ----------------------------------------------------------------- backend

\* MCServer.Status: the outbound connection's Status(), whose packet is
\* returned to the gateway.
\* Status writes its request and then blocks in ReadPacket until the backend
\* answers or closes, so the call is two steps of the handler.
ServerStatusWrite ==
    /\ gw.pc = "status"
    /\ \E w \in BasicServerConn_Status_Write(serverConn) :
          /\ serverConn' = w.c
          /\ last' = [op |-> "Status.WritePacket", err |-> w.err]
    /\ gw' = [gw EXCEPT !.pc = "status_read"]
    /\ UNCHANGED <<playerConn, store, adds, loginCalled, statusCalled, loops,
                   clientPks, ncalls>>

ServerStatusRead ==
    /\ gw.pc = "status_read"
    /\ \E r \in BasicServerConn_Status_Read(serverConn) :
          /\ serverConn' = r.c
          /\ last' = [op |-> "Status", pk |-> r.pk, err |-> r.err,
                      werr |-> last.err]
    /\ gw' = [gw EXCEPT !.pc = "closed"]
    /\ UNCHANGED <<playerConn, store, adds, loginCalled, statusCalled, loops,
                   clientPks, ncalls>>

\* MCServer.Login, first step: conn.HsPk() and conn.LoginStart().
ServerLoginRead ==
    /\ gw.pc = "login"
    /\ \E h \in HsPk(playerConn) :
          IF h.err # NoErr
          THEN /\ playerConn' = h.c
               /\ gw' = [gw EXCEPT !.pc = "closed"]
          ELSE \E l \in LoginStart(h.c) :
                  /\ playerConn' = l.c
                  /\ gw' = [gw EXCEPT !.pc = IF l.err # NoErr THEN "closed" ELSE "forward"]
    /\ UNCHANGED <<serverConn, store, adds, loginCalled, statusCalled, loops,
                   clientPks, last, ncalls>>

\* MCServer.Login, second step: both packets are sent to the outbound
\* connection with SendPK; a failed send ends the session.
ServerLoginForward ==
    /\ gw.pc = "forward"
    /\ \E a \in BasicServerConn_SendPK(serverConn, playerConn.hsPk) :
          IF a.err # NoErr
          THEN /\ serverConn' = a.c
               /\ gw' = [gw EXCEPT !.pc = "closed"]
          ELSE \E b \in BasicServerConn_SendPK(a.c, playerConn.loginPk) :
                  /\ serverConn' = b.c
                  /\ gw' = [gw EXCEPT !.pc = IF b.err # NoErr THEN "closed" ELSE "pipe"]
    /\ UNCHANGED <<playerConn, store, adds, loginCalled, statusCalled, loops,
                   clientPks, last, ncalls>>

\* -------------------------------------------------------------------- pipe

\* Pipe(c1, c2): "go pipe(c1, c2)" starts the loop c1c2 on its own goroutine,
\* and the caller enters pipe(c2, c1), the loop c2c1.
Pipe ==
    /\ gw.pc = "pipe"
    /\ loops' = [d \in {"c1c2", "c2c1"} |-> [IdleLoop EXCEPT !.pc = "read"]]
    /\ gw' = [gw EXCEPT !.pc = "piping"]
    /\ UNCHANGED <<playerConn, serverConn, store, adds, loginCalled, statusCalled,
                   clientPks, last, ncalls>>

\* A loop that slices its buffer one byte short: data := buffer[:n-1].
AfterRead_ShortChunk(l, o) ==
    IF o.err # NoErr THEN [l EXCEPT !.pc = "done", !.end = "read"]
    ELSE [l EXCEPT !.pc = "write", !.data = SubSeq(o.data, 1, Len(o.data) - 1)]

\* A loop that drops the error of Write and goes on reading.
AfterWrite_IgnoreErr(l, o) == [l EXCEPT !.pc = "read", !.data = <<>>]

\* pipe, the read half of an iteration of loop d: a failed Read ends the loop.
AfterRead(l, o) ==
    IF o.err # NoErr THEN [l EXCEPT !.pc = "done", !.end = "read"]
    ELSE [l EXCEPT !.pc = "write", !.data = o.data]

\* pipe, the write half of an iteration: a failed Write ends the loop.
AfterWrite(l, o) ==
    IF o.err # NoErr THEN [l EXCEPT !.pc = "done", !.data = <<>>, !.end = "write"]
    ELSE [l EXCEPT !.pc = "read", !.data = <<>>]

\* n, err := c1.Read(buffer) in pipe(c1, c2)
PipeRead(d) ==
    /\ loops[d].pc = "read"
    /\ IF d = "c1c2"
       THEN /\ \E o \in Read(playerConn, PipeBufferSize) :
                  /\ playerConn' = o.c
                  /\ loops' = [loops EXCEPT ![d] = AfterRead(@, o)]
            /\ UNCHANGED serverConn
       ELSE /\ \E o \in BasicServerConn_Read(serverConn, PipeBufferSize) :
                  /\ serverConn' = o.c
                  /\ loops' = [loops EXCEPT ![d] = AfterRead(@, o)]
            /\ UNCHANGED playerConn
    /\ UNCHANGED <<store, adds, gw, loginCalled, statusCalled, clientPks, last, ncalls>>

\* _, err = c2.Write(data) in pipe(c1, c2)
PipeWrite(d) ==
    /\ loops[d].pc = "write"
    /\ IF d = "c1c2"
       THEN /\ \E o \in BasicServerConn_Write(serverConn, loops[d].data) :
                  /\ serverConn' = o.c
                  /\ loops' = [loops EXCEPT ![d] = AfterWrite(@, o)]
            /\ UNCHANGED playerConn
       ELSE /\ \E o \in Write(playerConn, loops[d].data) :
                  /\ playerConn' = o.c
                  /\ loops' = [loops EXCEPT ![d] = AfterWrite(@, o)]
            /\ UNCHANGED serverConn
    /\ UNCHANGED <<store, adds, gw, loginCalled, statusCalled, clientPks, last, ncalls>>

\* Pipe returns when the loop its caller runs, pipe(c2, c1), returns; Login
\* and HandleConnection return with it.
PipeReturn ==
    /\ gw.pc = "piping"
    /\ loops["c2c1"].pc = "done"
    /\ gw' = [gw EXCEPT !.pc = "closed"]
    /\ UNCHANGED <<playerConn, serverConn, store, adds, loginCalled, statusCalled,
                   loops, clientPks, last, ncalls>>

\* What the program itself does in a session (the rest is its peers).
Program ==
    \/ SetupAddServer
    \/ Listen
    \/ GwFindServer
    \/ GwDispatch
    \/ ServerStatusWrite
    \/ ServerStatusRead
    \/ ServerLoginRead
    \/ ServerLoginForward
    \/ Pipe
    \/ \E d \in {"c1c2", "c2c1"} : PipeRead(d)
    \/ \E d \in {"c1c2", "c2c1"} : PipeWrite(d)
    \/ PipeReturn

Next ==
    \/ Program
    \/ ClientClose
    \/ ServerClose

Spec == Init /\ [][Next]_vars

\* ------------------------------------------- the player connection's callers

\* A caller holding a BasicPlayerConnection makes any calls in any order
\* (at most MaxCalls of them), while the client may close the connection.
InitConn ==
    /\ InitCommon({h \in Handshakes : h.ServerAddress = <<97>> /\ h.NextState = LoginRequest})
    /\ store = DefaultServerStore
    /\ gw = NewGw("api")

Called(op, o, val) ==
    /\ gw.pc = "api"
    /\ ncalls < MaxCalls
    /\ ncalls' = ncalls + 1
    /\ playerConn' = o.c
    /\ last' = [op |-> op, err |-> o.err, val |-> val]
    /\ UNCHANGED <<serverConn, store, adds, gw, loginCalled, statusCalled, loops,
                   clientPks>>

CallHs == \E o \in Hs(playerConn) : Called("Hs", o, o.hs)

CallHsPk == \E o \in HsPk(playerConn) : Called("HsPk", o, o.pk)

CallLoginStart == \E o \in LoginStart(playerConn) : Called("LoginStart", o, o.pk)

CallName == \E o \in Name(playerConn) : Called("Name", o, o.name)

CallReadPacket == \E o \in ReadPacket(playerConn) : Called("ReadPacket", o, o.pk)

CallWritePacket ==
    \E o \in WritePacket(playerConn, LoginStartPk) : Called("WritePacket", o, LoginStartPk)

CallRead == \E o \in Read(playerConn, PipeBufferSize) : Called("Read", o, o.data)

CallWrite == \E o \in Write(playerConn, <<7>>) : Called("Write", o, o.n)

NextConn ==
    \/ CallHs
    \/ CallHsPk
    \/ CallLoginStart
    \/ CallName
    \/ CallReadPacket
    \/ CallWritePacket
    \/ CallRead
    \/ CallWrite
    \/ ClientClose

SpecConn == InitConn /\ [][NextConn]_vars

\* One step of copy loop d.
LoopStep(d) == PipeRead(d) \/ PipeWrite(d)

\* The session under Go's scheduling: a goroutine that can take a step
\* eventually takes one.  Nothing is assumed of the client or the backend.
FairSpec ==
    /\ Spec
    /\ WF_vars(GwFindServer \/ GwDispatch \/ ServerStatusWrite \/ ServerStatusRead
               \/ ServerLoginRead
               \/ ServerLoginForward \/ Pipe \/ PipeReturn)
    /\ WF_vars(LoopStep("c1c2"))
    /\ WF_vars(LoopStep("c2c1"))

\* ------------------------------------------------------------------ claims

\* The handshake the client sent, if its first packet is one.
SentHs ==
    IF clientPks = <<>> THEN [hs |-> ZeroHandshake, err |-> ErrEOF]
    ELSE UnmarshalServerBoundHandshake(clientPks[1])

SentNextState == IF SentHs.err = NoErr THEN SentHs.hs.NextState ELSE -1

\* HandleConnection has made its decision (it is past FindServer and the
\* dispatch).
Dispatched == gw.pc \notin {"api", "setup", "find", "dispatch"}

\* The bytes the outbound socket has received, in order.
OutboundBytes == Flatten(serverConn.conn.connection.tx)

C2_HandshakeReadOnce ==
    [][(playerConn.hasHSPk /\ ncalls' = ncalls + 1 /\ last'.op \in {"Hs", "HsPk"}) =>
          /\ playerConn'.conn = playerConn.conn
          /\ playerConn'.hasHSPk
          /\ playerConn'.hsPk = playerConn.hsPk
          /\ last'.op = "HsPk" => last'.err = NoErr /\ last'.val = playerConn.hsPk]_vars

C2_Witness ==
    /\ playerConn.hasHSPk
    /\ playerConn.conn.readPackets = 1
    /\ ncalls >= 3
    /\ last.op = "HsPk"
    /\ last.val = playerConn.hsPk

\* C3: Pipe returns only after both copy loops have ended.
C3_PipeReturnsAfterBothLoops ==
    (gw.pc = "closed" /\ loops["c2c1"].pc # "idle") =>
        \A d \in {"c1c2", "c2c1"} : loops[d].pc = "done"

\* C4: in a login session whose client sends a handshake, login start and N
\* more frames, once the inbound stream has reported its end to the copy loop
\* the outbound stream has received the handshake frame, the login-start
\* frame and then the bytes of the N frames, in order and unchanged.
C4_AllFramesForwarded ==
    (Len(clientPks) >= 2 /\ loops["c1c2"].end = "read") =>
        /\ Len(serverConn.conn.connection.tx) >= 2
        /\ serverConn.conn.connection.tx[1] = Marshal(clientPks[1])
        /\ serverConn.conn.connection.tx[2] = Marshal(clientPks[2])
        /\ OutboundBytes = Wire(clientPks)

\* C5: when the connection switches from ReadPacket to Read, the packet
\* reader holds no byte back: every byte sent after the login-start frame is
\* still to be had from the socket.
C5_NoOverRead ==
    (gw.pc = "pipe" /\ Len(clientPks) >= 2) =>
        /\ playerConn.conn.reader = <<>>
        /\ playerConn.conn.connection.rx = Wire(SubSeq(clientPks, 3, Len(clientPks)))

\* C6: once the inbound stream has reported its end to the copy loop, both
\* loops eventually end and the session completes.
C6_BothLoopsEnd ==
    (loops["c1c2"].end = "read") ~>
        (gw.pc = "closed" /\ \A d \in {"c1c2", "c2c1"} : loops[d].pc = "done")

C8_SingleBackend ==
    (store.kind = "single" /\ gw.pc \notin {"api", "setup", "find"}) =>
        /\ gw.found = (store.Server # NoServer)
        /\ gw.server = store.Server

C8_Witness ==
    /\ store.kind = "single"
    /\ gw.pc = "dispatch"
    /\ gw.found
    /\ gw.server = "s2"
    /\ SentHs.err = NoErr
    /\ SentHs.hs.ServerAddress = <<65>>

\* C9: ParseRequestType gives Status for nextState 1, Login for nextState 2
\* and Unknown for every other value.
C9_RequestTypeMapping ==
    (gw.found /\ Dispatched) =>
        gw.reqType = CASE SentNextState = 1 -> StatusRequest
                       [] SentNextState = 2 -> LoginRequest
                       [] OTHER -> UnknownRequest

\* C10: Name fails with ErrNoNameYet as long as the login-start packet has
\* not been read, and no longer once LoginStart has read it.
C10_NameAfterLoginStart ==
    (gw.pc = "api" /\ last.op = "Name") =>
        ((last.err = ErrNoNameYet) = (playerConn.loginPk # LoginStartPk))

\* A step of the API harness that is a call of op.
IsCall(op) == ncalls' = ncalls + 1 /\ last'.op = op

\* The underlying ReadPacket of the player connection fails if called now.
ReadPacketFails ==
    /\ ReadPacket(playerConn) # {}
    /\ \A o \in ReadPacket(playerConn) : o.err # NoErr

\* C11: LoginStart reads the login-start packet once and caches it: a second
\* LoginStart call returns the same packet, leaves the cache field as it is
\* and performs no further ReadPacket on the underlying connection.
C11_LoginStartCached ==
    [][(last.op = "LoginStart" /\ IsCall("LoginStart")) =>
          /\ playerConn'.conn.readPackets = playerConn.conn.readPackets
          /\ playerConn'.loginPk = playerConn.loginPk
          /\ last'.val = last.val]_vars

\* C12: when the underlying ReadPacket fails while LoginStart reads the
\* login-start packet, LoginStart returns an error to its caller.
C12_LoginStartReportsFailure ==
    [][(ReadPacketFails /\ IsCall("LoginStart")) => last'.err # NoErr]_vars

\* C13: a successful WritePacket(p) on a player connection has written the
\* frame of p to the underlying connection, in exactly one write.
C13_WritePacketWrites ==
    [][(IsCall("WritePacket") /\ last'.err = NoErr) =>
          playerConn'.conn.connection.tx =
              Append(playerConn.conn.connection.tx, Marshal(last'.val))]_vars

\* The only packet a backend of this model answers with.
StatusResponse == [ID |-> 0, Data |-> <<7>>]

\* What Status has written to, and how often it has read from, the backend.
StatusWritten == serverConn.conn.connection.tx
StatusReads == serverConn.conn.readPackets

\* C14: a call of Status writes the status-request packet given at
\* construction exactly once, only then reads exactly one packet, and returns
\* that packet: nothing is read before the write and never a second packet.
C14_StatusWriteThenRead ==
    /\ gw.pc = "status" => (StatusWritten = <<>> /\ StatusReads = 0)
    /\ gw.pc = "status_read" =>
          /\ StatusReads = 0
          /\ last.op = "Status.WritePacket"
          /\ StatusWritten = IF last.err = NoErr THEN <<Marshal(ZeroPacket)>>
                             ELSE <<>>
    /\ last.op = "Status" =>
          /\ StatusReads = 1
          /\ StatusWritten = IF last.werr = NoErr THEN <<Marshal(ZeroPacket)>>
                             ELSE <<>>
          /\ last.err = NoErr => last.pk = StatusResponse

C14_Witness ==
    /\ last.op = "Status"
    /\ last.err = NoErr
    /\ last.werr = NoErr
    /\ last.pk = StatusResponse

\* C15: when writing the status-request packet fails, Status returns that
\* failure and reads no response.
C15_StatusWriteFailureReturned ==
    (last.op = "Status" /\ last.werr # NoErr) =>
        (last.err = last.werr /\ StatusReads = 0)

Dirs == {"c1c2", "c2c1"}
Other(d) == IF d = "c1c2" THEN "c2c1" ELSE "c1c2"

\* The stream loop d reads from and the one it writes to, given the two
\* connections: c1 of Pipe is the player, c2 the backend.
SrcNet(d, p, sv) == IF d = "c1c2" THEN p.conn.connection ELSE sv.conn.connection
DstNet(d, p, sv) == IF d = "c1c2" THEN sv.conn.connection ELSE p.conn.connection

\* C16: a copy loop ends exactly when its own Read or its own Write fails,
\* and the step that ends it touches neither stream and leaves the other
\* loop as it is.
C16_LoopEndsOnOwnFailure ==
    [][\A d \in Dirs :
        LET src == SrcNet(d, playerConn, serverConn)
            dst == DstNet(d, playerConn, serverConn)
        IN  /\ (loops[d].pc = "read" /\ loops'[d] # loops[d]) =>
                  loops'[d].pc = IF src.rx = <<>> THEN "done" ELSE "write"
            /\ (loops[d].pc = "write" /\ loops'[d] # loops[d]) =>
                  loops'[d].pc = IF dst.closed THEN "done" ELSE "read"
            /\ (loops[d].pc # "done" /\ loops'[d].pc = "done") =>
                  /\ loops[d].pc = "read" => (src.rx = <<>> /\ src.closed)
                  /\ loops[d].pc = "write" => dst.closed
                  /\ loops[d].pc \in {"read", "write"}
                  /\ playerConn' = playerConn
                  /\ serverConn' = serverConn
                  /\ loops'[Other(d)] = loops[Other(d)]]_vars

C16_Witness ==
    /\ loops["c2c1"].pc = "done"
    /\ loops["c1c2"].pc = "write"
    /\ loops["c1c2"].data # <<>>

\* C17: in each direction every chunk a successful Read returned is handed to
\* Write unmodified, once, before the next Read, and nothing else is written:
\* what reached the destination is a prefix of what was read, in order.
C17_ChunksCopiedInOrder ==
    /\ [](loops["c2c1"].pc # "idle" /\ loops["c2c1"].end # "write" =>
            \E bs \in BackendStreams :
                Flatten(playerConn.conn.connection.tx) \o loops["c2c1"].data
                    \o serverConn.conn.connection.rx = Wire(bs))
    /\ [][\A d \in Dirs :
            LET src == SrcNet(d, playerConn, serverConn)
                dst == DstNet(d, playerConn, serverConn)
                srcN == SrcNet(d, playerConn', serverConn')
                dstN == DstNet(d, playerConn', serverConn')
            IN  /\ (loops[d].pc = "read" /\ loops'[d].pc = "write") =>
                      /\ src.rx = loops'[d].data \o srcN.rx
                      /\ loops'[d].data # <<>>
                /\ (loops[d].pc = "write" /\ loops'[d].pc = "read") =>
                      dstN.tx = Append(dst.tx, loops[d].data)
                /\ loops[d].pc = "write" => srcN.rx = src.rx
                /\ (loops[d].pc \in {"read", "done"}
                      \/ (loops[d].pc = "write" /\ loops'[d].pc # "read")) =>
                      dstN.tx = dst.tx]_vars

C17_Witness ==
    /\ loops["c2c1"].pc = "read"
    /\ playerConn.conn.connection.tx = <<Wire(<<StatusResponse>>)>>
    /\ loops["c1c2"].pc = "read"
    /\ Len(serverConn.conn.connection.tx) >= 3

\* C18: the handshake cache is consistent: hasHS implies hasHSPk and the
\* cached handshake is the decoding of the cached packet; a flag once set is
\* never cleared and a cached value never replaced, whatever is called.
C18_CacheConsistent ==
    /\ [](playerConn.hasHS =>
            /\ playerConn.hasHSPk
            /\ UnmarshalServerBoundHandshake(playerConn.hsPk)
                  = [hs |-> playerConn.hs, err |-> NoErr])
    /\ [][/\ playerConn.hasHSPk =>
                (playerConn'.hasHSPk /\ playerConn'.hsPk = playerConn.hsPk)
          /\ playerConn.hasHS =>
                (playerConn'.hasHS /\ playerConn'.hs = playerConn.hs)]_vars

C18_Witness ==
    /\ playerConn.hasHS
    /\ playerConn.hasHSPk
    /\ playerConn.hs \in Handshakes
    /\ last.op = "LoginStart"
    /\ playerConn.loginPk = LoginStartPk

\* C19: when the underlying ReadPacket fails, HsPk and Hs return
\* ErrCantGetHSPacket and leave the cache as it was, both flags false, so
\* that every later call of HsPk or Hs performs another ReadPacket.
C19_FailedReadNotCached ==
    [][((IsCall("Hs") \/ IsCall("HsPk")) /\ ~playerConn.hasHSPk /\ ReadPacketFails) =>
          /\ last'.err = ErrCantGetHSPacket
          /\ ~playerConn'.hasHSPk
          /\ ~playerConn'.hasHS
          /\ playerConn'.hsPk = playerConn.hsPk
          /\ playerConn'.hs = playerConn.hs
          /\ playerConn'.conn.readPackets = playerConn.conn.readPackets + 1]_vars

C19_Witness ==
    /\ clientPks = <<>>
    /\ last.op = "Hs"
    /\ last.err = ErrCantGetHSPacket
    /\ playerConn.conn.readPackets >= 2
    /\ ~playerConn.hasHSPk

====
